---- MODULE Spec2Model ----
(***************************************************************************)
(* Model of scanner.KasperskyRun (src/scanner/kaspersky.go): the prefix    *)
(* bisection engine, the progress reporter goroutine, the threat collector *)
(* goroutine, the ticker and the two unbuffered channels.  The external    *)
(* scanner is an oracle: every Scan returns one of a small set of reports. *)
(***************************************************************************)
EXTENDS Integers, Sequences, FiniteSets, TLC

\* ------------------------------------------------------------------ bounds
\* File lengths explored: every length 0..MaxLen plus the one length BigLen,
\* which is large enough for both clamps of the dump window to be inactive.
MaxLen == 6
BigLen == 66
\* The collector of a closed channel appends "" for ever; the model records
\* the first MaxThreatList entries of threat_list and lets the loop spin on.
MaxThreatList == 2
\* Longest signature list handed to the de-duplication on its own.
MaxDupLen == 3

\* ------------------------------------------------------- program constants
\* bytes of context dumped on either side of the isolated offset
DumpPad == 32

FileLens == (0..MaxLen) \cup {BigLen}

\* --------------------------------------------------------- scanner reports
\* A report is a sequence of lines, a line a sequence of whitespace-separated
\* tokens.
SuspicionMarker == "suspicion"
HeurTokens == {"HEUR:A", "HEUR:B"}
NoSignature == "No signature found"

Reports ==
  { << >>,
    << <<"ok">> >>,
    << <<"HEUR:B">> >>,
    << <<"detected", "suspicion">> >>,
    << <<"file", "suspicion", "HEUR:A">> >>,
    << <<"ok">>, <<"HEUR:B", "HEUR:A", "suspicion">> >> }

\* strings.Contains(line, "suspicion") on some line of the report
IsMalicious(output) ==
  \E i \in 1..Len(output) : \E j \in 1..Len(output[i]) : output[i][j] = SuspicionMarker

LineHasHeur(line) == \E j \in 1..Len(line) : line[j] \in HeurTokens

RECURSIVE FirstHeur(_)
FirstHeur(line) ==
  IF line = << >> THEN NoSignature
  ELSE IF Head(line) \in HeurTokens THEN Head(line)
  ELSE FirstHeur(Tail(line))

\* first token containing "HEUR:" of the first line containing "HEUR:"
RECURSIVE GetSignature(_)
GetSignature(output) ==
  IF output = << >> THEN NoSignature
  ELSE IF LineHasHeur(Head(output)) THEN FirstHeur(Head(output))
  ELSE GetSignature(Tail(output))

\* ------------------------------------------------------------- the engine
\* variant: the pivot starts at the upper bound
InitMidAtUpper(ub) == ub

\* mid := upperBound / 2
InitMid(ub) == ub \div 2

\* variant: the pivot advances one byte at a time
MidLinear(lg, ub) == IF ub > lg THEN lg + 1 ELSE lg

\* mid = (lastGood + upperBound) / 2
Mid(lg, ub) == (lg + ub) \div 2

\* variants: the loop stops one byte early / runs one pass too many
LoopCondEarly(lg, ub) == ub - lg > 2
LoopCondLate(lg, ub) == ub - lg > 0

\* for upperBound-lastGood > 1
LoopCond(lg, ub) == ub - lg > 1

\* variant: the branches of the verdict are exchanged for the upper bound
NewUpperBoundSwapped(mal, ub, m) == IF mal THEN ub ELSE m

\* upperBound = mid on a malicious verdict
NewUpperBound(mal, ub, m) == IF mal THEN m ELSE ub

\* variant: a malicious verdict resets the lower bound
NewLastGoodReset(mal, lg, m) == IF mal THEN 0 ELSE m

\* lastGood = mid on a clean verdict
NewLastGood(mal, lg, m) == IF mal THEN lg ELSE m

\* variant: the clean branch does not return
AfterOriginalScanNoReturn(mal) == "sendSig"

\* if IsMalicious(output) { ... threat_names <- ... } else { ...; return nil }
AfterOriginalScan(mal) == IF mal THEN "sendSig" ELSE "returned"

\* start := lastGood - 32, clamped to 0
DumpStart(lg) == IF lg - DumpPad < 0 THEN 0 ELSE lg - DumpPad

\* variant: the end of the dump is taken from the upper bound (mid + 1)
DumpEndFromUpper(m, size) == IF m + 1 + DumpPad > size THEN size ELSE m + 1 + DumpPad

\* end := mid + 32, clamped to size
DumpEnd(m, size) == IF m + DumpPad > size THEN size ELSE m + DumpPad

\* The reports a scanner process that fails can have printed: nothing, or
\* text without the marker.
FailedReports == { << >>, << <<"HEUR:B">> >> }

\* variant: Scan hands the error of scanCmd.Run() to its caller
ScanErrPropagated(failed) == IF failed THEN "scan" ELSE "none"

\* scanCmd.Run(); ...; return output, nil
ScanErr(failed) == "none"

\* variant: the error is not tested
AbortOnErrNever(e) == FALSE

\* if err != nil { return err }
AbortOnErr(e) == e # "none"

\* uniqueThreats: the keys of the map filled from threat_list
UniqueThreats(list) == { list[i] : i \in 1..Len(list) }

\* for threat := range uniqueThreats { utils.PrintErr(threat) }: every key is
\* printed once, in an order the map iteration chooses.
PrintOrders(keys) ==
  { q \in [1..Cardinality(keys) -> keys] : \A k \in keys : \E i \in DOMAIN q : q[i] = k }

\* variant: the list is printed as collected
PrintedLinesNoDedup(list) == { list }

\* the lines printed for a threat_list: lines 193-200
PrintedLines(list) == PrintOrders(UniqueThreats(list))

\* What the engine's unsynchronised read of threat_list (line 194) can see.
\* While the collector's append is pending the read races with it: it sees the
\* list before the append, after it, with the new length but the element not
\* yet stored, or a torn slice header (a fault).
Fault == << "fault" >>
ReadThreatList(list, cpos, name) ==
  IF cpos = "append"
    THEN { list, Append(list, name), Append(list, ""), Fault }
    ELSE { list }

\* tf_lower := 0
tf_lower == 0

\* original_file[tf_lower:mid], the bytes written to the scratch file
ScratchSlice(low, m) == << low, m >>

\* variant: the status line prints the bounds the wrong way round
StatusLineSwapped(progress) ==
  [Low |-> progress.High, High |-> progress.Low, Malicious |-> progress.Malicious]

\* the Low, High and Malicious values formatted into the status line (line 90)
StatusLine(progress) ==
  [Low |-> progress.Low, High |-> progress.High, Malicious |-> progress.Malicious]

\* variant: the event carries the opposite verdict
ProgressFlipped(low, high, mal) == [Low |-> low, High |-> high, Malicious |-> ~mal]

Progress(low, high, mal) == [Low |-> low, High |-> high, Malicious |-> mal]

NoEvent == [Low |-> -1, High |-> -1, Malicious |-> FALSE]

VARIABLES
  size,           \* len(original_file)
  T,              \* scanner oracle: 0 = arbitrary verdicts, T > 0 = flags exactly the prefixes of length >= T
  pc,             \* position of KasperskyRun
  origVerdict,    \* verdict of the full-file scan: "none", "malicious", "clean"
  pendingSig,     \* GetSignature(output) of the full-file scan, about to be sent
  lastGood, upperBound, mid, threatFound,
  malicious,      \* IsMalicious(output) of the current iteration
  output,         \* the report returned by the latest Scan (<< >> once consumed)
  runFailed,      \* scanCmd.Run() of the latest Scan returned an error
  err,            \* the error KasperskyRun met: "none", "read", "write", "scan"
  scratch,        \* <<low, high>> of the slice of original_file held by the scratch file
  flagged,        \* the prefix lengths some Scan has classified malicious
  cleared,        \* the prefix lengths some Scan has classified clean
  lastDelivered,  \* the event of the latest completed send on progressUpdates
  tickCredit,     \* ticks the reporter has taken minus status lines it has printed
  writes,         \* scratch files written
  scans,          \* Scan calls made inside the loop
  progressSent,   \* number of sends completed on progressUpdates
  threatSent,     \* the values whose send on threat_names completed, in order
  iterSigs,       \* signature tokens found in the reports of malicious iterations
  report,         \* what KasperskyRun reported
  offset,         \* the offset printed with "Isolated bad bytes"
  dump,           \* <<start, end>> of original_file[start:end] handed to hex.Dump
  printedThreats, \* the signatures printed at result assembly, in order
  tickPending,    \* a tick is buffered in ticker.C
  tickerStopped,
  progressClosed, threatClosed,
  rpc,            \* position of the progress reporter goroutine
  lastPrinted,    \* the event of the last status line printed
  cpc,            \* position of the threat collector goroutine
  threat_name,    \* the collector's received value
  threat_list

inputVars     == << size, T >>
scanVars      == << output, runFailed, err >>
histVars      == << scratch, flagged, cleared >>
deliveryVars  == << lastDelivered, tickCredit >>
windowVars    == << lastGood, upperBound, mid, threatFound >>
iterVars      == << malicious, writes, scans, iterSigs >>
resultVars    == << report, offset, dump, printedThreats >>
tickerVars    == << tickPending, tickerStopped >>
chanVars      == << progressClosed, threatClosed >>
reporterVars  == << rpc, lastPrinted >>
collectorVars == << cpc, threat_name, threat_list >>

vars == << inputVars, scanVars, histVars, deliveryVars, pc, origVerdict, pendingSig, windowVars, iterVars,
           progressSent, threatSent, resultVars, tickerVars, chanVars,
           reporterVars, collectorVars >>

Init ==
  /\ size \in FileLens
  /\ T \in 0..size
  /\ pc = "readFile"
  /\ origVerdict = "none"
  /\ pendingSig = ""
  /\ lastGood = 0 /\ upperBound = 0 /\ mid = 0 /\ threatFound = FALSE
  /\ malicious = FALSE
  /\ output = << >> /\ runFailed = FALSE /\ err = "none"
  /\ scratch = << -1, -1 >> /\ flagged = {} /\ cleared = {}
  /\ lastDelivered = NoEvent /\ tickCredit = 0
  /\ writes = 0 /\ scans = 0 /\ progressSent = 0 /\ threatSent = << >>
  /\ iterSigs = {}
  /\ report = "none" /\ offset = -1 /\ dump = << -1, -1 >>
  /\ printedThreats = << >>
  /\ tickPending = FALSE /\ tickerStopped = FALSE
  /\ progressClosed = FALSE /\ threatClosed = FALSE
  /\ rpc = "notStarted" /\ lastPrinted = NoEvent
  /\ cpc = "notStarted" /\ threat_name = "" /\ threat_list = << >>

\* The reports the oracle can return for a file holding a prefix of length k.
ScanOutputs(k) == { o \in Reports : T = 0 \/ (IsMalicious(o) <=> k >= T) }

\* One call of Scan on a prefix of length k: whether the process failed, and
\* the text it printed.
ScanRuns(k) ==
  { r \in [failed : BOOLEAN, out : ScanOutputs(k)] : r.failed => r.out \in FailedReports }

\* ------------------------------------------------------------ KasperskyRun
\* original_file, err := os.ReadFile(file) succeeds; the ticker, the two
\* channels and the two goroutines are created.
ReadFileOk ==
  /\ pc = "readFile"
  /\ pc' = "scanOriginal"
  /\ rpc' = "select"
  /\ cpc' = "recv"
  /\ UNCHANGED << inputVars, histVars, deliveryVars, scanVars, origVerdict, pendingSig, windowVars, iterVars,
                  progressSent, threatSent, resultVars, tickerVars, chanVars,
                  lastPrinted, threat_name, threat_list >>

\* os.ReadFile fails: return err before anything is started
ReadFileErr ==
  /\ pc = "readFile"
  /\ err' = "read"
  /\ IF AbortOnErr("read")
       THEN pc' = "returned" /\ report' = "error"
       ELSE pc' = "scanOriginal" /\ UNCHANGED report
  /\ UNCHANGED << inputVars, histVars, deliveryVars, output, runFailed, origVerdict, pendingSig, windowVars, iterVars,
                  progressSent, threatSent, offset, dump, printedThreats,
                  tickerVars, chanVars, reporterVars, collectorVars >>

\* output, err := Scan(file, scanPath); a clean verdict returns nil at once
\* (the deferred ticker.Stop() runs, no channel is closed).
ScanOriginal ==
  /\ pc = "scanOriginal"
  /\ \E r \in ScanRuns(size) :
       /\ output' = r.out
       /\ runFailed' = r.failed
       /\ err' = ScanErr(r.failed)
       /\ IF AbortOnErr(ScanErr(r.failed))
            THEN /\ pc' = "returned"
                 /\ report' = "error"
                 /\ tickerStopped' = TRUE
                 /\ UNCHANGED << origVerdict, pendingSig, flagged, cleared >>
            ELSE /\ origVerdict' = IF IsMalicious(r.out) THEN "malicious" ELSE "clean"
                 /\ flagged' = IF IsMalicious(r.out) THEN {size} ELSE flagged
                 /\ cleared' = IF IsMalicious(r.out) THEN cleared ELSE {size}
                 /\ pc' = AfterOriginalScan(IsMalicious(r.out))
                 /\ pendingSig' = GetSignature(r.out)
                 /\ IF AfterOriginalScan(IsMalicious(r.out)) = "returned"
                      THEN /\ report' = "NoThreatOriginal"
                           /\ tickerStopped' = TRUE
                      ELSE UNCHANGED << report, tickerStopped >>
  /\ UNCHANGED << inputVars, scratch, deliveryVars, windowVars, iterVars, progressSent, threatSent,
                  offset, dump, printedThreats, tickPending, chanVars,
                  reporterVars, collectorVars >>

\* threat_names <- GetSignature(output): rendezvous with the collector's
\* receive; then the window is initialised.
SendSignature ==
  /\ pc = "sendSig"
  /\ cpc = "recv"
  /\ ~threatClosed
  /\ threat_name' = pendingSig
  /\ cpc' = "append"
  /\ threatSent' = Append(threatSent, pendingSig)
  /\ lastGood' = 0
  /\ upperBound' = size
  /\ mid' = InitMid(size)
  /\ threatFound' = FALSE
  /\ output' = << >>
  /\ runFailed' = FALSE
  /\ pc' = "loop"
  /\ UNCHANGED << inputVars, histVars, deliveryVars, err, origVerdict, pendingSig, iterVars, progressSent,
                  resultVars, tickerVars, chanVars, reporterVars, threat_list >>

\* One pass of the loop up to the send: write original_file[0:mid] to the
\* scratch file, Scan it, classify the report.
Iterate ==
  /\ pc = "loop"
  /\ LoopCond(lastGood, upperBound)
  /\ writes' = writes + 1
  /\ scans' = scans + 1
  /\ scratch' = ScratchSlice(tf_lower, mid)
  /\ \E r \in ScanRuns(mid) :
       /\ output' = r.out
       /\ runFailed' = r.failed
       /\ err' = ScanErr(r.failed)
       /\ IF AbortOnErr(ScanErr(r.failed))
            THEN /\ pc' = "returned"
                 /\ report' = "error"
                 /\ tickerStopped' = TRUE
                 /\ UNCHANGED << malicious, iterSigs, flagged, cleared >>
            ELSE /\ malicious' = IsMalicious(r.out)
                 /\ flagged' = IF IsMalicious(r.out) THEN flagged \cup {mid} ELSE flagged
                 /\ cleared' = IF IsMalicious(r.out) THEN cleared ELSE cleared \cup {mid}
                 /\ iterSigs' = IF IsMalicious(r.out) /\ GetSignature(r.out) # NoSignature
                                  THEN iterSigs \cup {GetSignature(r.out)}
                                  ELSE iterSigs
                 /\ pc' = "sendProgress"
                 /\ UNCHANGED << report, tickerStopped >>
  /\ UNCHANGED << inputVars, deliveryVars, origVerdict, pendingSig, windowVars, progressSent,
                  threatSent, offset, dump, printedThreats, tickPending,
                  chanVars, reporterVars, collectorVars >>

\* os.WriteFile fails: return err (the deferred ticker.Stop() runs)
WriteFileErr ==
  /\ pc = "loop"
  /\ LoopCond(lastGood, upperBound)
  /\ err' = "write"
  /\ IF AbortOnErr("write")
       THEN pc' = "returned" /\ report' = "error" /\ tickerStopped' = TRUE
       ELSE pc' = "sendProgress" /\ UNCHANGED << report, tickerStopped >>
  /\ UNCHANGED << inputVars, histVars, deliveryVars, output, runFailed, origVerdict, pendingSig, windowVars, iterVars,
                  progressSent, threatSent, offset, dump, printedThreats,
                  tickPending, chanVars, reporterVars, collectorVars >>

\* The rest of the pass once the send on progressUpdates has completed.
UpdateWindow ==
  /\ progressSent' = progressSent + 1
  /\ lastDelivered' = Progress(tf_lower, mid, malicious)
  /\ threatFound' = (threatFound \/ malicious)
  /\ upperBound' = NewUpperBound(malicious, upperBound, mid)
  /\ lastGood' = NewLastGood(malicious, lastGood, mid)
  /\ mid' = Mid(NewLastGood(malicious, lastGood, mid),
                NewUpperBound(malicious, upperBound, mid))
  /\ output' = << >>
  /\ runFailed' = FALSE
  /\ pc' = "loop"

\* progressUpdates <- Progress{...} received by the reporter's select
\* (case _, ok := <-progressUpdates): the event is dropped.
SendProgressSelect ==
  /\ pc = "sendProgress"
  /\ rpc = "select"
  /\ ~progressClosed
  /\ UpdateWindow
  /\ UNCHANGED << inputVars, histVars, tickCredit, err, origVerdict, pendingSig, iterVars, threatSent,
                  resultVars, tickerVars, chanVars, reporterVars, collectorVars >>

\* progressUpdates <- Progress{...} received by the reporter after a tick
\* (progress, ok := <-progressUpdates): the event is printed.
SendProgressTick ==
  /\ pc = "sendProgress"
  /\ rpc = "tickRecv"
  /\ ~progressClosed
  /\ UpdateWindow
  /\ lastPrinted' = StatusLine(Progress(tf_lower, mid, malicious))
  /\ tickCredit' = tickCredit - 1
  /\ rpc' = "select"
  /\ UNCHANGED << inputVars, histVars, err, origVerdict, pendingSig, iterVars, threatSent,
                  resultVars, tickerVars, chanVars, collectorVars >>

\* The loop condition fails: os.RemoveAll, then the result is assembled.
Assemble ==
  /\ pc = "loop"
  /\ ~LoopCond(lastGood, upperBound)
  /\ IF threatFound
       THEN /\ report' = "Isolated"
            /\ offset' = lastGood
            /\ dump' = << DumpStart(lastGood), DumpEnd(mid, size) >>
            /\ \E seen \in ReadThreatList(threat_list, cpc, threat_name) :
                 IF seen = Fault
                   THEN /\ pc' = "panicked"
                        /\ tickerStopped' = TRUE
                        /\ UNCHANGED printedThreats
                   ELSE /\ printedThreats' \in PrintedLines(seen)
                        /\ pc' = "close"
                        /\ UNCHANGED tickerStopped
       ELSE /\ report' = "NotMalicious"
            /\ pc' = "close"
            /\ UNCHANGED << offset, dump, printedThreats, tickerStopped >>
  /\ UNCHANGED << inputVars, histVars, deliveryVars, scanVars, origVerdict, pendingSig, windowVars, iterVars,
                  progressSent, threatSent, tickPending, chanVars, reporterVars,
                  collectorVars >>

\* ticker.Stop(); close(progressUpdates); close(threat_names); return nil
Close ==
  /\ pc = "close"
  /\ tickerStopped' = TRUE
  /\ progressClosed' = TRUE
  /\ threatClosed' = TRUE
  /\ pc' = "returned"
  /\ UNCHANGED << inputVars, histVars, deliveryVars, scanVars, origVerdict, pendingSig, windowVars, iterVars,
                  progressSent, threatSent, resultVars, tickPending,
                  reporterVars, collectorVars >>

Engine ==
  \/ ReadFileOk \/ ReadFileErr \/ ScanOriginal \/ SendSignature
  \/ Iterate \/ WriteFileErr \/ SendProgressSelect \/ SendProgressTick
  \/ Assemble \/ Close

\* ------------------------------------------------------------- the ticker
\* The runtime puts a tick into ticker.C (capacity 1) unless it is full.
Tick ==
  /\ ~tickerStopped
  /\ ~tickPending
  /\ pc # "readFile"
  /\ tickPending' = TRUE
  /\ UNCHANGED << inputVars, histVars, deliveryVars, scanVars, pc, origVerdict, pendingSig, windowVars, iterVars,
                  progressSent, threatSent, resultVars, tickerStopped, chanVars,
                  reporterVars, collectorVars >>

\* ----------------------------------------------------- progress reporter
\* case <-ticker.C: the reporter goes on to receive from progressUpdates
ReporterTick ==
  /\ rpc = "select"
  /\ tickPending
  /\ tickPending' = FALSE
  /\ rpc' = "tickRecv"
  /\ tickCredit' = tickCredit + 1
  /\ UNCHANGED << inputVars, histVars, lastDelivered, scanVars, pc, origVerdict, pendingSig, windowVars, iterVars,
                  progressSent, threatSent, resultVars, tickerStopped, chanVars,
                  lastPrinted, collectorVars >>

\* either receive reports !ok on the closed channel: return (wg.Done)
ReporterClosed ==
  /\ rpc \in {"select", "tickRecv"}
  /\ progressClosed
  /\ rpc' = "done"
  /\ UNCHANGED << inputVars, histVars, deliveryVars, scanVars, pc, origVerdict, pendingSig, windowVars, iterVars,
                  progressSent, threatSent, resultVars, tickerVars, chanVars,
                  lastPrinted, collectorVars >>

Reporter == ReporterTick \/ ReporterClosed

\* ------------------------------------------------------- threat collector
\* threat_list = append(threat_list, threat_name)
CollectorAppend ==
  /\ cpc = "append"
  /\ threat_list' = IF Len(threat_list) < MaxThreatList
                       THEN Append(threat_list, threat_name)
                       ELSE threat_list
  /\ cpc' = "recv"
  /\ UNCHANGED << inputVars, histVars, deliveryVars, scanVars, pc, origVerdict, pendingSig, windowVars, iterVars,
                  progressSent, threatSent, resultVars, tickerVars, chanVars,
                  reporterVars, threat_name >>

\* threat_name := <-threat_names on the closed channel yields "" at once
CollectorRecvClosed ==
  /\ cpc = "recv"
  /\ threatClosed
  /\ threat_name' = ""
  /\ cpc' = "append"
  /\ UNCHANGED << inputVars, histVars, deliveryVars, scanVars, pc, origVerdict, pendingSig, windowVars, iterVars,
                  progressSent, threatSent, resultVars, tickerVars, chanVars,
                  reporterVars, threat_list >>

Collector == CollectorAppend \/ CollectorRecvClosed

Next == Engine \/ Tick \/ Reporter \/ Collector

Spec == Init /\ [][Next]_vars

\* Each goroutine that can take a step eventually does; the ticker owes nothing.
FairSpec ==
  Spec /\ WF_vars(Engine) /\ WF_vars(Reporter) /\ WF_vars(Collector)

\* ------------------------------------------- the de-duplication on its own
\* Lines 193-200 applied to every threat_list of at most MaxDupLen entries.
DedupInit ==
  /\ threat_list \in UNION { [1..n -> HeurTokens \cup {NoSignature}] : n \in 0..MaxDupLen }
  /\ pc = "dedup"
  /\ size = 0 /\ T = 0
  /\ origVerdict = "malicious"
  /\ pendingSig = ""
  /\ lastGood = 0 /\ upperBound = 0 /\ mid = 0 /\ threatFound = TRUE
  /\ malicious = FALSE
  /\ output = << >> /\ runFailed = FALSE /\ err = "none"
  /\ scratch = << -1, -1 >> /\ flagged = {} /\ cleared = {}
  /\ lastDelivered = NoEvent /\ tickCredit = 0
  /\ writes = 0 /\ scans = 0 /\ progressSent = 0 /\ threatSent = << >>
  /\ iterSigs = {}
  /\ report = "none" /\ offset = -1 /\ dump = << -1, -1 >>
  /\ printedThreats = << >>
  /\ tickPending = FALSE /\ tickerStopped = FALSE
  /\ progressClosed = FALSE /\ threatClosed = FALSE
  /\ rpc = "select" /\ lastPrinted = NoEvent
  /\ cpc = "recv" /\ threat_name = ""

PrintThreats ==
  /\ pc = "dedup"
  /\ printedThreats' \in PrintedLines(threat_list)
  /\ pc' = "dedupDone"
  /\ UNCHANGED << inputVars, histVars, deliveryVars, scanVars, origVerdict, pendingSig, windowVars, iterVars,
                  progressSent, threatSent, report, offset, dump, tickerVars,
                  chanVars, reporterVars, collectorVars >>

SpecDedup == DedupInit /\ [][PrintThreats]_vars

\* ------------------------------------------------------------- properties
\* The loop has been left through its condition (not through an error return).
LoopExited == pc = "close" \/ (pc = "returned" /\ report \in {"Isolated", "NotMalicious"})

\* The window variables exist: lines 134-136 have run.
WindowLive == pc \in {"loop", "sendProgress", "close"}

RECURSIVE CeilLog2(_)
CeilLog2(n) == IF n <= 1 THEN 0 ELSE 1 + CeilLog2((n + 1) \div 2)

\* C1: with the threshold oracle malicious(k) = (k >= T), 0 < T <= N, the loop
\* ends with lastGood = T-1 and upperBound = T.
C1_ThresholdConverges ==
  (LoopExited /\ T > 0) => (lastGood = T - 1 /\ upperBound = T)

C1_Witness ==
  LoopExited /\ T > 1 /\ T < size /\ scans > 1 /\ size > MaxLen

\* C2 (as stated): lastGood never decreases, upperBound never increases, and the
\* loop always ends with upperBound - lastGood = 1.
C2_Original ==
  /\ [][WindowLive => (lastGood' >= lastGood /\ upperBound' <= upperBound)]_vars
  /\ [](LoopExited => upperBound - lastGood = 1)

\* C2 (amended): lastGood never decreases, upperBound never increases, and the
\* loop ends with upperBound - lastGood = 1 when the file is not empty, and
\* with upperBound = lastGood = 0 when it is.
C2_MonotoneWidthOne ==
  /\ [][WindowLive => (lastGood' >= lastGood /\ upperBound' <= upperBound)]_vars
  /\ [](LoopExited => IF size >= 1 THEN upperBound - lastGood = 1
                                   ELSE upperBound = 0 /\ lastGood = 0)

C2_Witness ==
  LoopExited /\ T = 0 /\ lastGood > 0 /\ upperBound < size /\ scans > 2

\* C3: after a malicious full-file scan of a file of length N >= 1 the loop
\* makes at most ceil(log2(N)) + 1 Scan calls, one per pass.
C3_ScanBound ==
  (origVerdict = "malicious" /\ size >= 1) =>
     (scans <= CeilLog2(size) + 1 /\ writes = scans)

C3_Witness ==
  LoopExited /\ T = 0 /\ size > MaxLen /\ scans = CeilLog2(size)

\* C4: a clean full-file scan ends the run at once: no scratch file, no Scan
\* in the loop, no progress event, and the report is the clean one.
C4_CleanIsNoOp ==
  origVerdict = "clean" =>
     /\ pc = "returned"
     /\ report = "NoThreatOriginal"
     /\ writes = 0 /\ scans = 0 /\ progressSent = 0
     /\ threatSent = << >>

C4_Witness ==
  origVerdict = "clean" /\ pc = "returned" /\ size > 1 /\ rpc = "tickRecv"

\* C5: for N = 1 with a malicious full-file scan the loop body never runs and
\* the result is "Not malicious", no offset.
C5_LengthOne ==
  (size = 1 /\ origVerdict = "malicious") =>
     /\ writes = 0 /\ scans = 0 /\ progressSent = 0
     /\ ~threatFound
     /\ report \in {"none", "NotMalicious"}
     /\ (LoopExited => report = "NotMalicious" /\ offset = -1)

C5_Witness ==
  size = 1 /\ origVerdict = "malicious" /\ pc = "returned" /\ report = "NotMalicious"

\* C8 (as stated): 0 <= lastGood < mid <= upperBound <= len(FileBuffer) in
\* every state of the bisection, initialisation and termination included.
C8_Original ==
  WindowLive =>
     (0 <= lastGood /\ lastGood < mid /\ mid <= upperBound /\ upperBound <= size)

\* C8 (amended): 0 <= lastGood <= mid <= upperBound <= len(FileBuffer) in every
\* state of the bisection; lastGood < mid < upperBound while the window is
\* wider than one byte, and mid = lastGood once it is not.
C8_WindowInvariant ==
  WindowLive =>
     /\ 0 <= lastGood /\ lastGood <= mid /\ mid <= upperBound /\ upperBound <= size
     /\ (upperBound - lastGood > 1 => (lastGood < mid /\ mid < upperBound))
     /\ (upperBound - lastGood <= 1 => mid = lastGood)

C8_Witness ==
  /\ pc = "sendProgress" /\ scans > 2 /\ lastGood > 0 /\ upperBound < size
  /\ lastGood < mid /\ mid < upperBound

\* C9 (as stated): the result reports lastGood and dumps
\* FileBuffer[max(0, lastGood-32) : min(len, upperBound+32)].
C9_Original ==
  report = "Isolated" =>
     /\ offset = lastGood
     /\ dump[1] = (IF lastGood - 32 > 0 THEN lastGood - 32 ELSE 0)
     /\ dump[2] = (IF upperBound + 32 < size THEN upperBound + 32 ELSE size)

\* C9 (amended): the result reports lastGood and dumps
\* FileBuffer[max(0, lastGood-32) : min(len, mid+32)], where the final mid
\* equals lastGood (one less than the final upperBound).
C9_DumpRange ==
  report = "Isolated" =>
     /\ offset = lastGood
     /\ mid = lastGood /\ upperBound = lastGood + 1
     /\ dump[1] = (IF lastGood - 32 > 0 THEN lastGood - 32 ELSE 0)
     /\ dump[2] = (IF lastGood + 32 < size THEN lastGood + 32 ELSE size)

C9_Witness ==
  report = "Isolated" /\ lastGood - 32 > 0 /\ lastGood + 32 < size

\* C10: every signature token found in the report of a malicious iteration has
\* been sent to the Threat Collector by the time upperBound is set to mid.
C10_IterationSignatureSent ==
  pc \in {"loop", "close", "returned"} =>
     \A s \in iterSigs : \E i \in 1..Len(threatSent) : threatSent[i] = s

\* C6: when the two goroutines run and no event is ever sent to either, both
\* of them terminate.
C6_IdleTasksTerminate ==
  (pc = "returned" /\ rpc # "notStarted" /\ progressSent = 0 /\ threatSent = << >>)
     ~> (rpc = "done" /\ cpc = "done")

\* C7: once the loop has exited the engine closes both channels and both
\* goroutines see the closure and exit.
C7_ShutdownExitsBoth ==
  LoopExited ~> (progressClosed /\ threatClosed /\ rpc = "done" /\ cpc = "done")

\* The reporter's half of the shutdown.
ReporterExitsOnClose ==
  LoopExited ~> (progressClosed /\ threatClosed /\ rpc = "done")

\* C11: after a malicious full-file scan the post-loop "Not malicious" outcome
\* (no iteration malicious, threatFound false) is never reached.
C11_NotMaliciousUnreachable ==
  origVerdict = "malicious" => report # "NotMalicious"

C13_IOErrorAborts ==
  /\ [](err \in {"read", "write"} =>
          (pc = "returned" /\ report = "error" /\ offset = -1 /\ dump = << -1, -1 >>))
  /\ [][(err' \in {"read", "write"}) =>
          UNCHANGED << writes, scans, progressSent, threatSent, lastGood,
                       upperBound, mid, threatFound, offset, dump >>]_vars

C13_Witness ==
  err = "write" /\ pc = "returned" /\ scans > 1 /\ lastGood > 0 /\ upperBound < size

\* C14: the window is written only by the engine, threat_list only by the
\* collector's append, and the engine reads threat_list (at result assembly)
\* only when no append of the collector is in progress or pending.
C14_SingleWriterNoRace ==
  [][ /\ (<< lastGood, upperBound, mid >>' # << lastGood, upperBound, mid >> => pc' # pc)
      /\ (threat_list' # threat_list => (cpc = "append" /\ cpc' = "recv" /\ pc' = pc))
      /\ ((pc = "loop" /\ pc' \in {"close", "panicked"} /\ threatFound) => cpc # "append")
    ]_vars

C20_SentSignaturePrinted ==
  (report = "Isolated" /\ pc \in {"close", "returned"}) =>
     \A i \in 1..Len(threatSent) : \E j \in 1..Len(printedThreats) :
        printedThreats[j] = threatSent[i]

\* C16: every pass scans exactly original_file[0:mid] and, before it touches
\* lastGood or upperBound, sends exactly one event with Low = 0, High = that
\* mid and Malicious = that scan's verdict.
C16_PrefixScannedAndReported ==
  /\ []((pc = "sendProgress" /\ err = "none") =>
          /\ scratch = << 0, mid >>
          /\ malicious = (output \notin {o \in Reports : ~IsMalicious(o)})
          /\ progressSent = scans - 1
          /\ lastGood < mid /\ mid < upperBound)
  /\ [](pc = "loop" => progressSent = scans)
  /\ [][progressSent' # progressSent =>
          /\ pc = "sendProgress"
          /\ progressSent' = progressSent + 1
          /\ lastDelivered' = [Low |-> 0, High |-> mid, Malicious |-> malicious]
       ]_vars
  /\ [][(WindowLive /\ << lastGood, upperBound >>' # << lastGood, upperBound >>) =>
          progressSent' = progressSent + 1]_vars

C16_Witness ==
  /\ pc = "loop" /\ scans > 2 /\ progressSent = scans
  /\ lastDelivered.Malicious /\ lastDelivered.High = upperBound /\ lastGood > 0

\* C17: a status line is printed only for a tick the reporter has taken, at
\* most one per tick, and it carries the Low/High/Malicious of the event the
\* engine has just delivered; nothing is printed before an event is delivered.
C17_ReporterPrintsDelivered ==
  /\ [](tickCredit >= 0)
  /\ [](progressSent = 0 => lastPrinted = NoEvent)
  /\ [][lastPrinted' # lastPrinted => tickCredit' = tickCredit - 1]_vars
  /\ [][tickCredit' < tickCredit =>
          /\ lastPrinted' = lastDelivered'
          /\ lastDelivered' = [Low |-> 0, High |-> mid, Malicious |-> malicious]
          /\ progressSent' = progressSent + 1
       ]_vars
  /\ [][tickCredit' > tickCredit => (tickPending /\ ~tickPending' /\ tickCredit' = tickCredit + 1)]_vars

C17_Witness ==
  /\ lastPrinted # NoEvent /\ lastPrinted # lastDelivered /\ progressSent > 2
  /\ lastPrinted.Malicious

\* At every send the receiving goroutine is at its receive, and the send
\* completes.
SendsAlwaysReceived ==
  /\ [](pc = "sendSig" => (cpc = "recv" /\ ~threatClosed))
  /\ [](pc = "sendProgress" => (rpc \in {"select", "tickRecv"} /\ ~progressClosed))
  /\ (pc = "sendSig" ~> pc = "loop")
  /\ (pc = "sendProgress" ~> pc = "loop")

\* C18: every send on progressUpdates and threat_names is eventually received
\* under any ticker timing, the engine never blocks for ever and KasperskyRun
\* eventually returns.
C18_SendsReceivedRunReturns ==
  /\ [](pc = "sendSig" => (cpc = "recv" /\ ~threatClosed))
  /\ [](pc = "sendProgress" => (rpc \in {"select", "tickRecv"} /\ ~progressClosed))
  /\ (pc = "sendSig" ~> pc = "loop")
  /\ (pc = "sendProgress" ~> pc = "loop")
  /\ <>(pc = "returned")

\* C19: for any scanner, upperBound is a prefix length some scan classified
\* malicious, lastGood is 0 or a prefix length some pass classified clean, and
\* lastGood < upperBound whenever the file is not empty.
C19_BoundsAreObserved ==
  WindowLive =>
     /\ upperBound \in flagged
     /\ (lastGood = 0 \/ lastGood \in cleared)
     /\ (size >= 1 => lastGood < upperBound)

C19_Witness ==
  /\ pc = "close" /\ T = 0 /\ lastGood > 0 /\ upperBound < size
  /\ Cardinality(flagged) > 2 /\ Cardinality(cleared) > 1 /\ runFailed = FALSE
====
